---- MODULE Spec2Model ----
(***************************************************************************)
(* Backup / restore subsystem of Mantrify01API.                            *)
(*                                                                         *)
(* The model follows src/src/routes/database.ts (the route handlers),      *)
(* src/unnamed/part_003 (modules/database/import.ts), src/unnamed/part_004 *)
(* (modules/database/filesystem.ts and modules/errorHandler.ts),           *)
(* src/src/modules/database/validation.ts and the table registry of        *)
(* modules/database/export.ts.  The bodies of exportTableToCSV,            *)
(* createBackup, zipDirectory and extractZip are not in the source tree    *)
(* (only their placeholders are); they are modelled from the               *)
(* specification, sections 4.3 and 4.4.                                    *)
(*                                                                         *)
(* An action is the code between two suspension points (await) of a        *)
(* handler; the loops of the restore handler advance one iteration per     *)
(* action.  Spec runs one restore request at a time against the store;     *)
(* FilesSpec runs create-backup, backups-list and delete-backup requests   *)
(* concurrently against the backup root; NamesSpec runs the handlers that  *)
(* take a filename over every filename within the bounds.                  *)
(***************************************************************************)
EXTENDS Integers, Sequences, FiniteSets, TLC

VARIABLES
    store,              \* committed rows of every registry entity
    txStore,            \* rows as seen inside the open transaction
    txnState,           \* "none" | "open" | "committed" | "rolledback"
    closes,             \* how many times the transaction was closed
    preserve,           \* process.env.NODE_ENV === "development"
    uploadsDir,         \* <backupRoot>/uploads exists
    uploadFile,         \* req.file.path exists
    uploadContent,      \* what the uploaded archive encodes
    extractionDirExists,\* the mkdtemp directory <backupRoot>/restore_XXXXXX exists
    extracted,          \* its content
    archive,            \* the archives in the backup root (at most one), as a set
    archiveSrc,         \* the store content that archive was exported from
    pc,                 \* position of the request in flight
    transaction,        \* the handler's variable: "null" | "handle"
    extractionDir,      \* the handler's variable: "null" | "set"
    csvRoot,            \* the located directory (a path below the extraction dir)
    idx,                \* loop index of the clear / import loop
    rowsImported,       \* Record<string, number>, as a set of <<name, count>>
    totalRows,
    pending,            \* the error travelling through catch / finally
    result,             \* what the request answered: "none" | "success" | an error code
    pre,                \* the store when the request began
    opsLog,             \* clear / load steps begun, in order
    flags,              \* what happened during the request
    aborted,            \* the client went away while the request was running
    rootExists,         \* the backup root directory <resources>/database_backups exists
    zipFiles,           \* archive name -> what the entry in the backup root holds
    stagingDirs,        \* timestamps whose directory database_backup_<timestamp> exists
    clock,              \* the wall clock, in seconds
    started,            \* how many create-backup requests were started so far
    returned,           \* archive names a create-backup request has answered with
    registry,           \* what getAllTables() returns in this build
    cr,                 \* the create-backup requests
    ls,                 \* the backups-list request
    del,                \* the delete-backup request
    req,                \* the last download, upload-naming, sanitizing or extraction call
    configured,         \* process.env.PATH_PROJECT_RESOURCES is set
    del2                \* a second delete-backup request

dbVars  == <<store, txStore, txnState, closes>>
fsVars  == <<uploadsDir, uploadFile, uploadContent, extractionDirExists, extracted>>
rootVars == <<rootExists, zipFiles, stagingDirs, clock, started, returned, registry,
              cr, ls, del, req>>
bakVars == <<archive, archiveSrc, rootVars, configured, del2>>
reqVars == <<pc, transaction, extractionDir, csvRoot, idx, rowsImported, totalRows,
             pending, result, pre, opsLog, flags>>
vars    == <<dbVars, fsVars, bakVars, reqVars, preserve, aborted>>

---------------------------------------------------------------------------
(* Bounds *)

\* How many entities of the registry the model keeps (its first NumTables).
NumTables == 3
\* How many rows the store holds at most, over all entities.
MaxRows == 1

---------------------------------------------------------------------------
(* Table registry *)

AllTables ==
    << "Users", "Mantras", "ContractUsersMantras", "ContractUserMantraListen",
       "ElevenLabsFiles", "Queue", "SoundFiles", "ContractMantrasElevenLabsFiles",
       "ContractMantrasSoundFiles" >>

getAllTables == SubSeq(AllTables, 1, NumTables)

TableNames == { getAllTables[i] : i \in 1..Len(getAllTables) }

---------------------------------------------------------------------------
(* Values, rows, store contents.  A text is a tuple of one-character       *)
(* strings; NULL is a tuple that is no text.                               *)

NULL == << "null" >>

TextValues == { <<>>, << "a" >>, << ",", "\"" >> }

Values == TextValues \cup { NULL }

Digits == << "1", "2", "3", "4", "5", "6", "7", "8", "9" >>

IdText(k) == << Digits[k] >>

IdCol  == << "i", "d" >>
ValCol == << "v", "a", "l" >>
Columns == << IdCol, ValCol >>
ColumnSet == { Columns[i] : i \in 1..Len(Columns) }

Row(id, v) == (IdCol :> id) @@ (ValCol :> v)

TableContents(k) ==
    { { Row(IdText(j), f[j]) : j \in 1..k } : f \in [1..k -> Values] }

AllContents == UNION { TableContents(k) : k \in 0..MaxRows }

RECURSIVE SumCard(_, _)
SumCard(s, names) ==
    IF names = {} THEN 0
    ELSE LET n == CHOOSE x \in names : TRUE
         IN  Cardinality(s[n]) + SumCard(s, names \ {n})

StoreUniverse ==
    { s \in [TableNames -> AllContents] : SumCard(s, TableNames) <= MaxRows }

EmptyStore == [n \in TableNames |-> {}]

---------------------------------------------------------------------------
(* Delimited text.  A data file is a sequence of lines, a line a text.     *)
(* Texts hold no line break, so a record is one line.                      *)

Comma == ","
Quote == "\""

RECURSIVE SetToSeq(_)
SetToSeq(S) ==
    IF S = {} THEN <<>>
    ELSE LET x == CHOOSE y \in S : TRUE
         IN  <<x>> \o SetToSeq(S \ {x})

\* Rows in ascending order of id (the ids of the model are single digits).
RECURSIVE RowsById(_, _)
RowsById(rows, k) ==
    IF k > Len(Digits) THEN SetToSeq(rows)
    ELSE LET mine == { r \in rows : r[IdCol] = IdText(k) }
         IN  SetToSeq(mine) \o RowsById(rows \ mine, k + 1)

NeedsQuote(v) == \E i \in 1..Len(v) : v[i] \in { Comma, Quote }

RECURSIVE DoubleQuotes(_)
DoubleQuotes(v) ==
    IF v = <<>> THEN <<>>
    ELSE (IF Head(v) = Quote THEN << Quote, Quote >> ELSE << Head(v) >>)
         \o DoubleQuotes(Tail(v))

\* NULL is written as the empty field; a text holding the delimiter or the
\* quote character is quoted, its quote characters doubled.
EncodeField(v) ==
    IF v = NULL THEN <<>>
    ELSE IF NeedsQuote(v) THEN << Quote >> \o DoubleQuotes(v) \o << Quote >>
    ELSE v

RECURSIVE JoinFields(_)
JoinFields(fields) ==
    IF fields = <<>> THEN <<>>
    ELSE IF Len(fields) = 1 THEN fields[1]
    ELSE fields[1] \o << Comma >> \o JoinFields(Tail(fields))

HeaderLine == JoinFields(Columns)

EncodeRow(row) ==
    JoinFields([i \in 1..Len(Columns) |-> EncodeField(row[Columns[i]])])

\* exportTableToCSV: the header once, then one line per row.
exportTableToCSV(rows) ==
    LET ordered == RowsById(rows, 1)
    IN  << HeaderLine >> \o [i \in 1..Len(ordered) |-> EncodeRow(ordered[i])]

\* csv(): the cells of one line.  A quote opens a quoted cell at the start
\* of a cell; inside it a doubled quote is one quote character.
RECURSIVE SplitLine(_, _, _, _, _)
SplitLine(line, i, cur, inQuotes, acc) ==
    IF i > Len(line) THEN Append(acc, cur)
    ELSE LET c == line[i]
         IN  IF inQuotes
             THEN IF c = Quote
                  THEN IF i < Len(line) /\ line[i + 1] = Quote
                       THEN SplitLine(line, i + 2, Append(cur, Quote), TRUE, acc)
                       ELSE SplitLine(line, i + 1, cur, FALSE, acc)
                  ELSE SplitLine(line, i + 1, Append(cur, c), TRUE, acc)
             ELSE IF c = Quote /\ cur = <<>>
                  THEN SplitLine(line, i + 1, cur, TRUE, acc)
                  ELSE IF c = Comma
                       THEN SplitLine(line, i + 1, <<>>, FALSE, Append(acc, cur))
                       ELSE SplitLine(line, i + 1, Append(cur, c), FALSE, acc)

Cells(line) == SplitLine(line, 1, <<>>, FALSE, <<>>)

Min2(a, b) == IF a < b THEN a ELSE b

\* One object per data line, keyed by the cells of the first line.
RowObject(header, cells) ==
    LET n == Min2(Len(header), Len(cells))
    IN  [c \in { header[i] : i \in 1..n } |->
            cells[CHOOSE i \in 1..n : header[i] = c]]

ParseCsv(lines) ==
    IF lines = <<>> THEN <<>>
    ELSE LET header == Cells(lines[1])
         IN  [k \in 1..(Len(lines) - 1) |-> RowObject(header, Cells(lines[k + 1]))]

\* A wrong parseCSVRow: fields pass through unchanged.
parseCSVRowIdentity(row) == row

\* parseCSVRow: every empty-string field becomes null.
parseCSVRow(row) ==
    [k \in DOMAIN row |-> IF row[k] = <<>> THEN NULL ELSE row[k]]

\* A reader that takes the header line for a data line as well.
ParsedRowsKeepHeader(lines) ==
    [k \in 1..Len(lines) |-> parseCSVRow(RowObject(Cells(lines[1]), Cells(lines[k])))]

ParsedRows(lines) ==
    LET raw == ParseCsv(lines)
    IN  [k \in 1..Len(raw) |-> parseCSVRow(raw[k])]

---------------------------------------------------------------------------
(* Directory trees.  A file name is stem + "." + ext; a directory holds    *)
(* files (name, text) and, in readdir order, subdirectories.               *)

Name(stem, ext) == [stem |-> stem, ext |-> ext]

File(name, text) == [name |-> name, text |-> text]

Dir(files, dirs) == [files |-> files, dirs |-> dirs]

SubDir(name, dir) == [name |-> name, dir |-> dir]

EmptyDir == Dir({}, <<>>)

\* entry.name.endsWith(".csv")
IsCsv(name) == name.ext = "csv"

\* filename.endsWith(".zip")
validateZipExtension(name) == name.ext = "zip"

FileNames(dir) == { f.name : f \in dir.files }

DirNames(dir) == { dir.dirs[k].name : k \in 1..Len(dir.dirs) }

\* fs.existsSync: true of a file and of a directory alike.
existsSync(dir, name) == name \in FileNames(dir) \cup DirNames(dir)

IsFile(dir, name) == name \in FileNames(dir)

TextOf(dir, name) == (CHOOSE f \in dir.files : f.name = name).text

NoRoot == << 0 >>

HasCsvFile(dir) == \E f \in dir.files : IsCsv(f.name)

\* findCsvRoot: the root itself, else the first subdirectory holding a .csv file.
findCsvRoot(root) ==
    IF HasCsvFile(root) THEN <<>>
    ELSE LET hits == { k \in 1..Len(root.dirs) : HasCsvFile(root.dirs[k].dir) }
         IN  IF hits = {} THEN NoRoot
             ELSE << CHOOSE k \in hits : \A j \in hits : k <= j >>

\* The directory at `path` below root; no entry is found below a path that is gone.
DirAt(root, path) ==
    IF path = <<>> THEN root
    ELSE IF path[1] \in 1..Len(root.dirs) THEN root.dirs[path[1]].dir
    ELSE EmptyDir

\* (await readdir(csvRoot)).filter(entry => entry.endsWith(".csv"))
csvFiles(dir) == { n \in FileNames(dir) \cup DirNames(dir) : IsCsv(n) }

---------------------------------------------------------------------------
(* Archives.  An archive encodes a directory tree, or is no archive.       *)

Archive(root) == [valid |-> TRUE, root |-> root]

CorruptArchive == [valid |-> FALSE, root |-> EmptyDir]

\* createBackup + zipDirectory: one <entity>.csv per registry entity, flat.
ExportAll(s) ==
    Archive(Dir({ File(Name(n, "csv"), exportTableToCSV(s[n])) : n \in TableNames }, <<>>))

OneRowText  == << HeaderLine, EncodeRow(Row(IdText(1), << "a" >>)) >>
EmptyValText == << HeaderLine, EncodeRow(Row(IdText(1), <<>>)) >>
DupRowsText == << HeaderLine, EncodeRow(Row(IdText(1), << "a" >>)),
                  EncodeRow(Row(IdText(1), <<>>)) >>
HeaderOnlyText == << HeaderLine >>

T(i) == getAllTables[i]

\* Archives an administrator may upload that no backup produced.
CraftedArchives ==
    { \* first entity one row, second header only, the others absent
      Archive(Dir({ File(Name(T(1), "csv"), OneRowText),
                    File(Name(T(2), "csv"), HeaderOnlyText) }, <<>>)),
      \* second entity's rows collide on the primary key
      Archive(Dir({ File(Name(T(1), "csv"), OneRowText),
                    File(Name(T(2), "csv"), DupRowsText) }, <<>>)),
      \* no data file at all
      Archive(Dir({ File(Name("README", "txt"), <<>>) },
                  << SubDir(Name("docs", ""), Dir({ File(Name("notes", "txt"), <<>>) }, <<>>)) >>)),
      \* a data file, none named after a registry entity
      Archive(Dir({ File(Name("other", "csv"), OneRowText) }, <<>>)),
      \* the data files wrapped in one folder
      Archive(Dir({}, << SubDir(Name("empty", ""), EmptyDir),
                         SubDir(Name("backup", ""),
                                Dir({ File(Name(T(1), "csv"), EmptyValText) }, <<>>)) >>)),
      \* the first entity's data file name is a directory
      Archive(Dir({ File(Name(T(2), "csv"), OneRowText) },
                  << SubDir(Name(T(1), "csv"), EmptyDir) >>)),
      \* the data files two levels down
      Archive(Dir({}, << SubDir(Name("a", ""),
                                Dir({}, << SubDir(Name("b", ""),
                                   Dir({ File(Name(T(1), "csv"), OneRowText) }, <<>>)) >>)) >>)),
      CorruptArchive }

---------------------------------------------------------------------------
(* The store.  Statements run inside the transaction act on txStore;       *)
(* commit publishes it, rollback discards it.                              *)

\* Model.bulkCreate accepts the rows: the columns are the entity's, and no
\* primary key occurs twice.
Accepts(existing, rows) ==
    /\ \A i \in 1..Len(rows) : DOMAIN rows[i] = ColumnSet
    /\ \A i, j \in 1..Len(rows) : i # j => rows[i][IdCol] # rows[j][IdCol]
    /\ \A i \in 1..Len(rows) : \A r \in existing : r[IdCol] # rows[i][IdCol]

RowSet(rows) == { rows[i] : i \in 1..Len(rows) }

---------------------------------------------------------------------------
(* POST /database/replenish-database                                       *)

NoFlags ==
    [ received     |-> FALSE,   \* multer stored an uploaded file
      fromBackup   |-> FALSE,   \* the upload is the archive create-backup wrote
      stepFailed   |-> FALSE,   \* a clear or load step raised an error
      commitFailed |-> FALSE,   \* transaction.commit() raised an error
      cleanupThrew |-> FALSE,   \* cleanupDirectory raised an error
      unlinkFailed |-> FALSE,   \* unlink of the uploaded file raised an error
      present      |-> {} ]     \* entities whose data file was there when the transaction opened

UploadNames == { Name("backup", "zip"), Name("backup", "txt") }

\* multer's fileFilter: file.originalname.endsWith(".zip")
fileFilter(name) == name.ext = "zip"

\* A loop that clears in registry order.
ClearOrderForward(n) == [k \in 1..n |-> k]

\* for (let i = tables.length - 1; i >= 0; i--)
ClearOrder(n) == [k \in 1..n |-> n - k + 1]

\* for (const { name, model } of tables)
ImportOrder(n) == [k \in 1..n |-> k]

\* A catch block that never rolls back.
RollbackWantedNever(t) == FALSE

\* if (transaction) { await transaction.rollback(); }
RollbackWanted(t) == t # "null"

\* The outer catch: an AppError keeps its code, anything else is RESTORE_FAILED.
OuterCatch(err) == IF err = "Error" THEN "RESTORE_FAILED" ELSE err

Respond(err) == IF err = "none" THEN "success" ELSE OuterCatch(err)

\* A cleanup that treats every run as a development run.
SkipCleanupAlways(isDevelopment) == TRUE

\* const isDevelopment = process.env.NODE_ENV === "development": cleanup is skipped
SkipCleanup(isDevelopment) == isDevelopment

\* The finally block, entered with the error `err` pending ("none" on success),
\* up to its suspension point.
Finally(err, fl) ==
    LET removes == extractionDir = "set" /\ ~SkipCleanup(preserve) /\ extractionDirExists
    IN  \/ \* fs.rmSync raises: the error leaves the finally block
           /\ removes
           /\ UNCHANGED <<extractionDirExists, extracted>>
           /\ flags' = [fl EXCEPT !.cleanupThrew = TRUE]
           /\ pending' = "none"
           /\ result' = OuterCatch("Error")
           /\ pc' = "done"
        \/ /\ extractionDirExists' = (extractionDirExists /\ ~removes)
           /\ extracted' = IF removes THEN EmptyDir ELSE extracted
           /\ flags' = fl
           /\ IF uploadFile /\ ~SkipCleanup(preserve)
              THEN pc' = "unlink" /\ pending' = err /\ result' = "none"
              ELSE pc' = "done" /\ pending' = "none" /\ result' = Respond(err)

\* An error raised inside the inner try block.
Raise(err, fl) ==
    IF RollbackWanted(transaction)
    THEN /\ pc' = "rollback"
         /\ pending' = err
         /\ flags' = fl
         /\ UNCHANGED <<result, extractionDirExists, extracted>>
    ELSE Finally(err, fl)

Idle == pc \in { "idle", "done" }

ResetRequest ==
    /\ transaction' = "null"
    /\ extractionDir' = "null"
    /\ csvRoot' = NoRoot
    /\ idx' = 0
    /\ rowsImported' = {}
    /\ totalRows' = 0
    /\ pending' = "none"
    /\ opsLog' = <<>>
    /\ pre' = store
    /\ txnState' = "none"
    /\ closes' = 0
    /\ txStore' = store
    /\ aborted' = FALSE
    /\ extractionDirExists' = FALSE
    /\ extracted' = EmptyDir
    /\ UNCHANGED <<store, preserve, bakVars>>

\* upload.single("file") stored the file; the handler runs to its first await.
ReceiveUpload ==
    /\ Idle
    /\ \E a \in CraftedArchives \cup archive, on \in UploadNames :
          /\ fileFilter(on)
          /\ uploadsDir' = TRUE
          /\ uploadFile' = TRUE
          /\ uploadContent' = a
          /\ flags' = [NoFlags EXCEPT !.received = TRUE, !.fromBackup = (a \in archive)]
          /\ IF validateZipExtension(on)
             THEN pc' = "mkdtemp" /\ result' = "none"
             ELSE pc' = "done" /\ result' = "INVALID_FILENAME"
    /\ ResetRequest

\* fileFilter refuses the file: nothing is stored, the error goes to next().
FileFilterReject ==
    /\ Idle
    /\ \E on \in UploadNames : ~fileFilter(on)
    /\ pc' = "done"
    /\ result' = "INVALID_BACKUP_FILE"
    /\ flags' = NoFlags
    /\ uploadFile' = FALSE
    /\ uploadContent' = CorruptArchive
    /\ UNCHANGED uploadsDir
    /\ ResetRequest

\* if (!req.file) throw INVALID_BACKUP_FILE
NoFileUploaded ==
    /\ Idle
    /\ pc' = "done"
    /\ result' = OuterCatch("INVALID_BACKUP_FILE")
    /\ flags' = NoFlags
    /\ uploadFile' = FALSE
    /\ uploadContent' = CorruptArchive
    /\ UNCHANGED uploadsDir
    /\ ResetRequest

InFlightFrame ==
    UNCHANGED <<preserve, aborted, bakVars, pre, uploadsDir, uploadFile, uploadContent>>

\* extractionDir = await fs.promises.mkdtemp(path.join(backupRoot, "restore_"))
Mkdtemp ==
    /\ pc = "mkdtemp"
    /\ \E ok \in BOOLEAN :
          IF ok
          THEN /\ extractionDir' = "set"
               /\ extractionDirExists' = TRUE
               /\ extracted' = EmptyDir
               /\ pc' = "extract"
               /\ UNCHANGED <<pending, result, flags>>
          ELSE /\ Raise("Error", flags)
               /\ UNCHANGED extractionDir
    /\ UNCHANGED <<dbVars, transaction, csvRoot, idx, rowsImported, totalRows, opsLog>>
    /\ InFlightFrame

\* What extractZip raises on a file that is no archive.
ExtractZipError == "INVALID_BACKUP_FILE"

\* await extractZip(uploadedFilePath, extractionDir)
ExtractZip ==
    /\ pc = "extract"
    /\ IF uploadFile /\ extractionDirExists /\ uploadContent.valid
       THEN /\ extracted' = uploadContent.root
            /\ pc' = "locate"
            /\ UNCHANGED <<pending, result, flags, extractionDirExists>>
       ELSE Raise(ExtractZipError, flags)
    /\ UNCHANGED <<dbVars, transaction, extractionDir, csvRoot, idx, rowsImported,
                   totalRows, opsLog>>
    /\ InFlightFrame

\* findCsvRoot, the csvFiles check, getAllTables(), up to sequelize.transaction()
Locate ==
    /\ pc = "locate"
    /\ LET root == findCsvRoot(extracted)
       IN  IF ~extractionDirExists
           THEN \* readdir raises ENOENT
                Raise("Error", flags) /\ UNCHANGED csvRoot
           ELSE IF root = NoRoot
           THEN Raise("INVALID_BACKUP_FILE", flags) /\ UNCHANGED csvRoot
           ELSE IF csvFiles(DirAt(extracted, root)) = {}
                THEN Raise("INVALID_BACKUP_FILE", flags) /\ UNCHANGED csvRoot
                ELSE /\ csvRoot' = root
                     /\ pc' = "begin"
                     /\ UNCHANGED <<pending, result, flags, extractionDirExists, extracted>>
    /\ UNCHANGED <<dbVars, transaction, extractionDir, idx, rowsImported, totalRows, opsLog>>
    /\ InFlightFrame

\* transaction = await sequelize.transaction()
BeginTransaction ==
    /\ pc = "begin"
    /\ \E ok \in BOOLEAN :
          IF ok
          THEN /\ transaction' = "handle"
               /\ txnState' = "open"
               /\ txStore' = store
               /\ idx' = 1
               /\ pc' = "clear"
               /\ flags' = [flags EXCEPT !.present =
                              { n \in TableNames :
                                  IsFile(DirAt(extracted, csvRoot), Name(n, "csv")) }]
               /\ UNCHANGED <<pending, result, extractionDirExists, extracted>>
          ELSE /\ Raise("Error", flags)
               /\ UNCHANGED <<transaction, txnState, txStore, idx>>
    /\ UNCHANGED <<store, closes, extractionDir, csvRoot, rowsImported, totalRows, opsLog>>
    /\ InFlightFrame

\* One iteration of the clear loop: await model.destroy({ where: {}, truncate: true, transaction })
ClearTable ==
    /\ pc = "clear"
    /\ LET n    == Len(getAllTables)
           name == getAllTables[ClearOrder(n)[idx]]
       IN  /\ opsLog' = Append(opsLog, << "clear", name >>)
           /\ \E ok \in BOOLEAN :
                 IF ok
                 THEN /\ txStore' = [txStore EXCEPT ![name] = {}]
                      /\ IF idx < n
                         THEN idx' = idx + 1 /\ pc' = "clear"
                         ELSE idx' = 1 /\ pc' = "import"
                      /\ UNCHANGED <<pending, result, flags, extractionDirExists, extracted>>
                 ELSE /\ Raise("Error", [flags EXCEPT !.stepFailed = TRUE])
                      /\ UNCHANGED <<txStore, idx>>
    /\ UNCHANGED <<store, txnState, closes, transaction, extractionDir, csvRoot,
                   rowsImported, totalRows>>
    /\ InFlightFrame

\* The entity of the import loop's current iteration, and its data file.
ImportName == getAllTables[ImportOrder(Len(getAllTables))[idx]]

CsvName == Name(ImportName, "csv")

CsvDir == DirAt(extracted, csvRoot)

\* A loop that stops one entity early.
ImportMoreOffByOne(i, n) == i < n - 1

\* for (... of tables): another entity follows the i-th
ImportMore(i, n) == i < n

\* The import loop moves on with rowsImported[name] = count.
Advance(count) ==
    /\ rowsImported' = { e \in rowsImported : e[1] # ImportName } \cup { << ImportName, count >> }
    /\ totalRows' = totalRows + count
    /\ IF ImportMore(idx, Len(getAllTables))
       THEN idx' = idx + 1 /\ pc' = "import"
       ELSE idx' = idx /\ pc' = "commit"
    /\ UNCHANGED <<pending, result, flags, extractionDirExists, extracted>>

\* One iteration of the import loop: the existsSync check and importCSVToTable.
ImportTable ==
    /\ pc = "import"
    /\ ~existsSync(CsvDir, CsvName) \/ IsFile(CsvDir, CsvName)
    /\ opsLog' = Append(opsLog, << "load", ImportName >>)
    /\ IF ~existsSync(CsvDir, CsvName)
       THEN \* logged and skipped: rowsImported[name] = 0; continue
            Advance(0) /\ UNCHANGED txStore
       ELSE \E outcome \in { "end", "error" }, dbOk \in BOOLEAN :
              IF outcome = "error"
              THEN \* the parser's "error" event: reject(INVALID_BACKUP_FILE)
                   /\ dbOk
                   /\ Raise("INVALID_BACKUP_FILE", [flags EXCEPT !.stepFailed = TRUE])
                   /\ UNCHANGED <<txStore, idx, rowsImported, totalRows>>
              ELSE LET rows == ParsedRows(TextOf(CsvDir, CsvName))
                   IN  IF Len(rows) = 0
                       THEN dbOk /\ Advance(0) /\ UNCHANGED txStore
                       ELSE IF dbOk /\ Accepts(txStore[ImportName], rows)
                            THEN /\ txStore' = [txStore EXCEPT
                                                  ![ImportName] = @ \cup RowSet(rows)]
                                 /\ Advance(Len(rows))
                            ELSE \* bulkCreate raised: reject(RESTORE_FAILED)
                                 /\ Raise("RESTORE_FAILED",
                                          [flags EXCEPT !.stepFailed = TRUE])
                                 /\ UNCHANGED <<txStore, idx, rowsImported, totalRows>>
    /\ UNCHANGED <<store, txnState, closes, transaction, extractionDir, csvRoot>>
    /\ InFlightFrame

\* importCSVToTable on a path that exists and cannot be read (a directory):
\* fs.createReadStream emits "error" on the read stream, which has no listener
\* (the one listener is on the parser that pipe() returns).  The unhandled
\* "error" event ends the process; the promise is never settled.
ReadStreamCrash ==
    /\ pc = "import"
    /\ existsSync(CsvDir, CsvName) /\ ~IsFile(CsvDir, CsvName)
    /\ opsLog' = Append(opsLog, << "load", ImportName >>)
    /\ flags' = [flags EXCEPT !.stepFailed = TRUE]
    /\ pc' = "crashed"
    /\ UNCHANGED <<dbVars, transaction, extractionDir, csvRoot, idx, rowsImported,
                   totalRows, pending, result, extractionDirExists, extracted>>
    /\ InFlightFrame

\* await transaction.commit(); transaction = null
Commit ==
    /\ pc = "commit"
    /\ \E ok \in BOOLEAN :
          IF ok
          THEN /\ store' = txStore
               /\ txnState' = "committed"
               /\ closes' = closes + 1
               /\ transaction' = "null"
               /\ Finally("none", flags)
               /\ UNCHANGED txStore
          ELSE /\ Raise("Error", [flags EXCEPT !.commitFailed = TRUE])
               /\ UNCHANGED <<dbVars, transaction>>
    /\ UNCHANGED <<extractionDir, csvRoot, idx, rowsImported, totalRows, opsLog>>
    /\ InFlightFrame

\* catch: await transaction.rollback(); throw error, and on into finally
Rollback ==
    /\ pc = "rollback"
    /\ txnState' = "rolledback"
    /\ closes' = closes + 1
    /\ txStore' = store
    /\ Finally(pending, flags)
    /\ UNCHANGED <<store, transaction, extractionDir, csvRoot, idx, rowsImported,
                   totalRows, opsLog>>
    /\ InFlightFrame

\* finally: await fs.promises.unlink(uploadedFilePath), a failure is logged;
\* then the response, or the pending error in the outer catch
UnlinkUpload ==
    /\ pc = "unlink"
    /\ \E ok \in BOOLEAN :
          /\ ok => uploadFile
          /\ uploadFile' = (uploadFile /\ ~ok)
          /\ flags' = [flags EXCEPT !.unlinkFailed = ~ok]
    /\ result' = Respond(pending)
    /\ pending' = "none"
    /\ pc' = "done"
    /\ UNCHANGED <<dbVars, transaction, extractionDir, csvRoot, idx, rowsImported,
                   totalRows, opsLog, extractionDirExists, extracted>>
    /\ UNCHANGED <<preserve, aborted, bakVars, pre, uploadsDir, uploadContent>>

\* The client closes the connection; the handler registers no listener for it.
ClientAbort ==
    /\ pc \notin { "idle", "done", "crashed" }
    /\ ~aborted
    /\ aborted' = TRUE
    /\ UNCHANGED <<dbVars, fsVars, bakVars, reqVars, preserve>>

---------------------------------------------------------------------------
(* restoreFromBackup(extractedPath), the module-level restore, run on the  *)
(* directory `dir` against the store `s` with a database that answers.     *)

\* The transaction after the first i entities of the import loop: no table
\* is cleared, each data file is imported into the rows that are there.
RECURSIVE restoreLoop(_, _, _)
restoreLoop(dir, s, i) ==
    IF i = 0 THEN [ok |-> TRUE, store |-> s, counts |-> {}]
    ELSE LET prev == restoreLoop(dir, s, i - 1)
             name == getAllTables[i]
             csv  == Name(name, "csv")
         IN  IF ~prev.ok THEN prev
             ELSE IF ~existsSync(dir, csv)
             THEN [prev EXCEPT !.counts = @ \cup { << name, 0 >> }]
             ELSE IF ~IsFile(dir, csv)
             THEN [prev EXCEPT !.ok = FALSE]
             ELSE LET rows == ParsedRows(TextOf(dir, csv))
                  IN  IF Len(rows) = 0
                      THEN [prev EXCEPT !.counts = @ \cup { << name, 0 >> }]
                      ELSE IF Accepts(prev.store[name], rows)
                      THEN [prev EXCEPT !.store[name] = @ \cup RowSet(rows),
                                        !.counts = @ \cup { << name, Len(rows) >> }]
                      ELSE [prev EXCEPT !.ok = FALSE]

\* commit and return importResults, or rollback and rethrow
restoreFromBackup(dir, s) ==
    LET end == restoreLoop(dir, s, Len(getAllTables))
    IN  IF end.ok
        THEN [result |-> "success", store |-> end.store, counts |-> end.counts]
        ELSE [result |-> "RESTORE_FAILED", store |-> s, counts |-> {}]

---------------------------------------------------------------------------
(* POST /database/create-backup, its successful run                        *)

CreateBackup ==
    /\ Idle
    /\ archive = {}
    /\ archive' = { ExportAll(store) }
    /\ archiveSrc' = store
    /\ UNCHANGED <<dbVars, fsVars, reqVars, preserve, aborted, rootVars, configured, del2>>

---------------------------------------------------------------------------
(* Filenames.  A filename is a tuple of characters; "NUL" is the null byte. *)

\* How long the free part of a filename gets.
MaxName == 1

Alphabet == { "a", ".", "/", "\\", "NUL", " " }

ZipExt == << ".", "z", "i", "p" >>

Strings(n) == UNION { [1..k -> Alphabet] : k \in 0..n }

\* String.prototype.includes
includes(s, sub) ==
    \E i \in 1..(Len(s) - Len(sub) + 1) : SubSeq(s, i, i + Len(sub) - 1) = sub

\* String.prototype.endsWith
endsWith(s, suf) ==
    Len(s) >= Len(suf) /\ SubSeq(s, Len(s) - Len(suf) + 1, Len(s)) = suf

\* String.prototype.trim, as far as its length goes
TrimmedLen(s) == Cardinality({ i \in 1..Len(s) : s[i] # " " })

\* path.isAbsolute (posix)
isAbsolute(s) == Len(s) > 0 /\ s[1] = "/"

\* validateZipExtension on a filename: "ok" or the code of the AppError thrown
validateZipExtensionOf(filename) ==
    IF ~endsWith(filename, ZipExt) THEN "INVALID_FILENAME" ELSE "ok"

\* A validator that forgets the backslash.
validateFilenameNoBackslash(filename) ==
    IF \/ includes(filename, << ".", "." >>)
       \/ includes(filename, << "/" >>)
       \/ isAbsolute(filename)
    THEN "INVALID_FILENAME"
    ELSE IF includes(filename, << "NUL" >>) THEN "INVALID_FILENAME"
    ELSE IF filename = <<>> \/ TrimmedLen(filename) = 0 THEN "INVALID_FILENAME"
    ELSE "ok"

\* validateFilename: "ok" or the code of the AppError thrown
validateFilename(filename) ==
    IF \/ includes(filename, << ".", "." >>)
       \/ includes(filename, << "/" >>)
       \/ includes(filename, << "\\" >>)
       \/ isAbsolute(filename)
    THEN "INVALID_FILENAME"
    ELSE IF includes(filename, << "NUL" >>) THEN "INVALID_FILENAME"
    ELSE IF filename = <<>> \/ TrimmedLen(filename) = 0 THEN "INVALID_FILENAME"
    ELSE "ok"

RECURSIVE StripTrailingSlashes(_)
StripTrailingSlashes(s) ==
    IF s # <<>> /\ s[Len(s)] = "/"
    THEN StripTrailingSlashes(SubSeq(s, 1, Len(s) - 1))
    ELSE s

LastSlash(s) ==
    LET at == { i \in 1..Len(s) : s[i] = "/" }
    IN  IF at = {} THEN 0 ELSE CHOOSE i \in at : \A j \in at : j <= i

\* path.basename (posix)
basename(s) ==
    LET t == StripTrailingSlashes(s)
    IN  SubSeq(t, LastSlash(t) + 1, Len(t))

\* [a-zA-Z0-9._-]
SafeChars == { "a", "z", "i", "p", ".", "_", "-" } \cup { Digits[i] : i \in 1..Len(Digits) }

\* basename.replace(/[^a-zA-Z0-9._-]/g, "_")
ReplaceUnsafe(s) == [i \in 1..Len(s) |-> IF s[i] \in SafeChars THEN s[i] ELSE "_"]

\* sanitizeFilename
sanitizeFilename(filename) == ReplaceUnsafe(basename(filename))

\* path.join(backupPath, name) for a name without separator: where it points
pathJoin(name) ==
    IF name = <<>> \/ name = << "." >> THEN << "root" >>
    ELSE IF name = << ".", "." >> THEN << "parent" >>
    ELSE IF includes(name, << "/" >>) THEN << "nested", name >>
    ELSE << "entry", name >>

\* `database_backup_${timestamp}.zip`, the timestamp standing for the whole name
ZipName(k) == IdText(k) \o ZipExt

---------------------------------------------------------------------------
(* The backup root, and the handlers that take a filename.                 *)

\* How many different seconds the clock shows.
MaxStamp == 2
\* How many create-backup requests are made.
MaxCreates == 2

Stamps == 1..MaxStamp

ArchiveNames == { ZipName(k) : k \in Stamps }

\* What an entry of zipFiles holds: no file, a half-written archive, or the
\* archive that the k-th create-backup request wrote.
NoFile == 0
Partial == -1

\* ".." and "../a", "a/..", "/a", "a b": names longer than the free part
LongerNames ==
    { << ".", "." >>, << ".", ".", "/", "a" >>, << "a", "/", ".", "." >>, << "/", "a" >>,
      << "a", " ", "a" >>, << "a", ".", ".", "a" >> }

FileNameInputs ==
    { b \o e : b \in Strings(MaxName) \cup LongerNames, e \in { <<>>, ZipExt } }
        \cup ArchiveNames

NoPath == <<>>

\* fs.existsSync(path.join(backupPath, name))
ArchiveExists(files, name) ==
    rootExists /\ name \in DOMAIN files /\ files[name] # NoFile

\* An unlink that removes nothing.
unlinkNothing(files, name) == files

\* fs.promises.unlink / fs.unlinkSync
unlink(files, name) == [files EXCEPT ![name] = NoFile]

RestoreFrozen ==
    UNCHANGED <<dbVars, fsVars, archive, archiveSrc, reqVars, preserve, aborted,
                configured, del2>>

IdleDel ==
    [ pc |-> "idle", name |-> <<>>, path |-> NoPath, result |-> "none", fsCalls |-> 0 ]

IdleReq ==
    [ op |-> "none", name |-> <<>>, path |-> NoPath, result |-> "none", fsCalls |-> 0,
      out |-> <<>>, entries |-> {}, written |-> {}, listing |-> <<>>, count |-> 0 ]

\* The model keeps the last filename request only: a download, upload-naming,
\* sanitizing or extraction call starts when no delete-backup is in flight.
OneAtATime == del.pc # "unlink" /\ del' = IdleDel

\* DELETE /delete-backup/:filename, up to await fs.promises.unlink
DeleteStart(names) ==
    /\ del.pc \in { "idle", "done" }
    /\ \E f \in names :
         LET begun == [IdleDel EXCEPT !.name = f]
             target == sanitizeFilename(f)
         IN  IF validateZipExtensionOf(f) # "ok"
             THEN del' = [begun EXCEPT !.pc = "done", !.result = validateZipExtensionOf(f)]
             ELSE IF validateFilename(f) # "ok"
             THEN del' = [begun EXCEPT !.pc = "done", !.result = validateFilename(f)]
             ELSE IF ~configured
             THEN del' = [begun EXCEPT !.pc = "done", !.result = "INTERNAL_ERROR"]
             ELSE IF ~ArchiveExists(zipFiles, target)
             THEN del' = [begun EXCEPT !.pc = "done", !.result = "BACKUP_NOT_FOUND",
                                       !.path = pathJoin(target), !.fsCalls = 1]
             ELSE del' = [begun EXCEPT !.pc = "unlink", !.path = pathJoin(target),
                                       !.fsCalls = 2]
    /\ req' = IdleReq
    /\ UNCHANGED <<rootExists, zipFiles, stagingDirs, clock, started, returned, registry,
                   cr, ls>>
    /\ RestoreFrozen

DeleteBackup == DeleteStart(ArchiveNames)

DeleteBackupNamed == DeleteStart(FileNameInputs)

\* the unlink settles; the answer, or BACKUP_FAILED from its catch block
DeleteUnlink ==
    /\ del.pc = "unlink"
    /\ LET target == del.path[2]
       IN  \E ok \in BOOLEAN :
             IF ok /\ ArchiveExists(zipFiles, target)
             THEN /\ zipFiles' = unlink(zipFiles, target)
                  /\ returned' = returned \ { target }
                  /\ del' = [del EXCEPT !.pc = "done", !.result = "success",
                                        !.fsCalls = 3]
             ELSE /\ zipFiles' = zipFiles
                  /\ returned' = returned
                  /\ del' = [del EXCEPT !.pc = "done", !.result = "BACKUP_FAILED",
                                        !.fsCalls = 3]
    /\ UNCHANGED <<rootExists, stagingDirs, clock, started, registry, cr, ls, req>>
    /\ RestoreFrozen

\* What a delete-backup request beside the first one leaves alone.
SecondFrozen ==
    UNCHANGED <<dbVars, fsVars, archive, archiveSrc, reqVars, preserve, aborted,
                configured, del, req>>

\* DELETE /delete-backup/:filename of a second client, up to await fs.promises.unlink
SecondDeleteStart(names) ==
    /\ del2.pc \in { "idle", "done" }
    /\ \E f \in names :
         LET begun == [IdleDel EXCEPT !.name = f]
             target == sanitizeFilename(f)
         IN  IF validateZipExtensionOf(f) # "ok"
             THEN del2' = [begun EXCEPT !.pc = "done", !.result = validateZipExtensionOf(f)]
             ELSE IF validateFilename(f) # "ok"
             THEN del2' = [begun EXCEPT !.pc = "done", !.result = validateFilename(f)]
             ELSE IF ~configured
             THEN del2' = [begun EXCEPT !.pc = "done", !.result = "INTERNAL_ERROR"]
             ELSE IF ~ArchiveExists(zipFiles, target)
             THEN del2' = [begun EXCEPT !.pc = "done", !.result = "BACKUP_NOT_FOUND",
                                        !.path = pathJoin(target), !.fsCalls = 1]
             ELSE del2' = [begun EXCEPT !.pc = "unlink", !.path = pathJoin(target),
                                        !.fsCalls = 2]
    /\ UNCHANGED <<rootExists, zipFiles, stagingDirs, clock, started, returned, registry,
                   cr, ls>>
    /\ SecondFrozen

SecondDeleteNamed == SecondDeleteStart(FileNameInputs)

\* the second request's unlink settles
SecondDeleteUnlink ==
    /\ del2.pc = "unlink"
    /\ LET target == del2.path[2]
       IN  \E ok \in BOOLEAN :
             IF ok /\ ArchiveExists(zipFiles, target)
             THEN /\ zipFiles' = unlink(zipFiles, target)
                  /\ returned' = returned \ { target }
                  /\ del2' = [del2 EXCEPT !.pc = "done", !.result = "success",
                                          !.fsCalls = 3]
             ELSE /\ zipFiles' = zipFiles
                  /\ returned' = returned
                  /\ del2' = [del2 EXCEPT !.pc = "done", !.result = "BACKUP_FAILED",
                                          !.fsCalls = 3]
    /\ UNCHANGED <<rootExists, stagingDirs, clock, started, registry, cr, ls>>
    /\ SecondFrozen

\* GET /download-backup/:filename
DownloadBackup(names) ==
    /\ \E f \in names :
         LET begun == [IdleReq EXCEPT !.op = "download", !.name = f]
             target == sanitizeFilename(f)
         IN  IF validateZipExtensionOf(f) # "ok"
             THEN req' = [begun EXCEPT !.result = validateZipExtensionOf(f)]
             ELSE IF validateFilename(f) # "ok"
             THEN req' = [begun EXCEPT !.result = validateFilename(f)]
             ELSE IF ~configured
             THEN req' = [begun EXCEPT !.result = "INTERNAL_ERROR"]
             ELSE IF ~ArchiveExists(zipFiles, target)
             THEN req' = [begun EXCEPT !.result = "BACKUP_NOT_FOUND",
                                       !.path = pathJoin(target), !.fsCalls = 1]
             ELSE req' = [begun EXCEPT !.result = "stream", !.path = pathJoin(target),
                                       !.fsCalls = 3]
    /\ OneAtATime
    /\ UNCHANGED <<rootExists, zipFiles, stagingDirs, clock, started, returned, registry,
                   cr, ls>>
    /\ RestoreFrozen

DownloadBackupNamed == DownloadBackup(FileNameInputs)

\* `restore_${uniqueSuffix}_`
UploadPrefix == << "_" >>

\* upload.single("file") and the first checks of POST /replenish-database, for
\* the original filename of the upload: fileFilter, the filename callback of
\* the disk storage, then validateZipExtension(req.file.originalname).
UploadOriginalName ==
    /\ configured
    /\ \E f \in FileNameInputs :
         LET begun == [IdleReq EXCEPT !.op = "upload", !.name = f]
             stored == UploadPrefix \o sanitizeFilename(f)
         IN  IF ~endsWith(f, ZipExt)
             THEN req' = [begun EXCEPT !.result = "INVALID_BACKUP_FILE"]
             ELSE IF validateZipExtensionOf(f) # "ok"
             THEN req' = [begun EXCEPT !.result = validateZipExtensionOf(f),
                                       !.path = pathJoin(stored), !.fsCalls = 1]
             ELSE req' = [begun EXCEPT !.result = "accepted",
                                       !.path = pathJoin(stored), !.fsCalls = 1]
    /\ OneAtATime
    /\ UNCHANGED <<rootExists, zipFiles, stagingDirs, clock, started, returned, registry,
                   cr, ls>>
    /\ RestoreFrozen

\* requireProjectResources, the first middleware of POST /replenish-database,
\* when the resources path is not set
RequireProjectResources ==
    /\ ~configured
    /\ req' = [IdleReq EXCEPT !.op = "restore", !.result = "INTERNAL_ERROR"]
    /\ OneAtATime
    /\ UNCHANGED <<rootExists, zipFiles, stagingDirs, clock, started, returned, registry,
                   cr, ls>>
    /\ RestoreFrozen

\* sanitizeFilename(name), and path.join(backupPath, ...) of what it returns
SanitizeCall ==
    /\ \E f \in FileNameInputs :
         req' = [IdleReq EXCEPT !.op = "sanitize", !.name = f,
                                !.out = sanitizeFilename(f),
                                !.path = pathJoin(sanitizeFilename(f))]
    /\ OneAtATime
    /\ UNCHANGED <<rootExists, zipFiles, stagingDirs, clock, started, returned, registry,
                   cr, ls>>
    /\ RestoreFrozen

---------------------------------------------------------------------------
(* Unarchive.  An entry's stored path is a tuple of segments; "/" as first *)
(* segment makes it absolute, elsewhere it is an empty segment.            *)

\* How many segments a stored path has.
MaxSegs == 2

Segments == { "x", "..", "/" }

EntryPaths == UNION { [1..k -> Segments] : k \in 1..MaxSegs }

\* Archives of at most two entries, one of them plain.
EntrySets == { { p, q } : p \in EntryPaths, q \in { << "x" >> } }

\* An extractor that writes every entry.
SkipsEntryNever(p) == FALSE

\* unarchive rejects an entry whose stored path is absolute or holds a
\* parent-directory segment
SkipsEntry(p) == p[1] = "/" \/ \E i \in 1..Len(p) : p[i] = ".."

\* extractZip(zipPath, extractPath): the stored paths it writes below extractPath
extractZip(entries) == { p \in entries : ~SkipsEntry(p) }

ExtractEntries ==
    /\ \E entries \in EntrySets :
         req' = [IdleReq EXCEPT !.op = "extract", !.entries = entries,
                                !.written = extractZip(entries),
                                !.fsCalls = Cardinality(extractZip(entries))]
    /\ OneAtATime
    /\ UNCHANGED <<rootExists, zipFiles, stagingDirs, clock, started, returned, registry,
                   cr, ls>>
    /\ RestoreFrozen

---------------------------------------------------------------------------
(* GET /database/backups-list: what it answers for one reading of the      *)
(* backup root.  An entry has a name, a kind and the second it was created *)
(* in; a listing is what readdir returns, in readdir order.                *)

\* How many entries a listing has at most.
MaxEntries == 2

EntryNames == { ZipName(1), ZipName(2), << "z", "i", "p" >> }

BirthTimes == { 1, 2 }

DirEntries == [ name : EntryNames, kind : { "file", "dir" }, birth : BirthTimes ]

Listings ==
    { l \in UNION { [1..k -> DirEntries] : k \in 0..MaxEntries } :
        \A i, j \in 1..Len(l) : i # j => l[i].name # l[j].name }

\* A listing that takes every entry for a file.
statIsFileAlways(e) == TRUE

\* stats.isFile()
statIsFile(e) == e.kind = "file"

\* entries.filter((entry) => entry.endsWith(".zip"))
IsZipEntry(e) == endsWith(e.name, ZipExt)

\* Array.prototype.sort with (a, b) => b.createdAt - a.createdAt: stable,
\* the later creation time first.
RECURSIVE InsertNewestFirst(_, _)
InsertNewestFirst(sorted, e) ==
    IF sorted = <<>> THEN << e >>
    ELSE IF Head(sorted).birth >= e.birth
    THEN << Head(sorted) >> \o InsertNewestFirst(Tail(sorted), e)
    ELSE << e >> \o sorted

RECURSIVE SortNewestFirst(_)
SortNewestFirst(l) ==
    IF l = <<>> THEN <<>>
    ELSE InsertNewestFirst(SortNewestFirst(SubSeq(l, 1, Len(l) - 1)), l[Len(l)])

\* backupFiles, backups without the nulls, sorted
filteredBackups(listing) ==
    SortNewestFirst(SelectSeq(SelectSeq(listing, IsZipEntry), statIsFile))

\* The answer { backups, count } for a listing, no stat failing.  The model
\* keeps the last call only, so a listing follows a call of another kind.
ListBackups ==
    /\ configured
    /\ req.op # "list"
    /\ \E l \in Listings :
         req' = [IdleReq EXCEPT !.op = "list", !.listing = l,
                                !.out = filteredBackups(l),
                                !.count = Len(filteredBackups(l)),
                                !.result = "ok"]
    /\ OneAtATime
    /\ UNCHANGED <<rootExists, zipFiles, stagingDirs, clock, started, returned, registry,
                   cr, ls>>
    /\ RestoreFrozen

---------------------------------------------------------------------------
(* POST /database/create-backup and GET /database/backups-list, request by *)
(* request against the shared backup root.                                 *)

Creators == { "A", "B" }

\* id and ts are the request's number and timestamp while it is in flight.
IdleCreate == [ pc |-> "idle", id |-> 0, ts |-> 1, result |-> "none", unlinkFailed |-> FALSE ]

IdleList == [ pc |-> "idle", seen |-> FALSE, snapshot |-> {}, result |-> "none", list |-> {} ]

\* A handler that takes any registry.
RegistryEmptyNever(tables) == FALSE

\* tables.length === 0
RegistryEmpty(tables) == Len(tables) = 0

\* cleanupNonZipFiles(): every entry of the backup root whose name does not
\* end in .zip is removed, the staging directories of all requests, the
\* uploads directory and the extraction directory of a restore with them.
cleanupNonZipFiles ==
    /\ stagingDirs' = {}
    /\ uploadsDir' = FALSE
    /\ uploadFile' = FALSE
    /\ extractionDirExists' = FALSE
    /\ extracted' = EmptyDir
    /\ UNCHANGED uploadContent

\* What a create-backup request leaves alone.
CreateFrozen ==
    UNCHANGED <<dbVars, archive, archiveSrc, reqVars, preserve, aborted, configured, del2>>

\* The catch block of create-backup and the outer catch: every error is
\* answered as BACKUP_FAILED.  `files` is the backup root's archives when the
\* error is caught.
FailPath(c, rec, files) ==
    LET zip == ZipName(rec.ts)
    IN  \E rmThrows, unlinkOk \in BOOLEAN :
          IF rmThrows
          THEN \* cleanupDirectory(backupFolderPath) raises: the block is left
               /\ rec.ts \in stagingDirs
               /\ unlinkOk
               /\ stagingDirs' = stagingDirs
               /\ UNCHANGED fsVars
               /\ zipFiles' = files
               /\ cr' = [cr EXCEPT ![c] = [IdleCreate EXCEPT !.pc = "done",
                                                             !.result = "BACKUP_FAILED"]]
          ELSE \* the staging directory, the archive, then cleanupNonZipFiles()
               /\ cleanupNonZipFiles
               /\ (unlinkOk \/ files[zip] # NoFile)
               /\ zipFiles' = IF unlinkOk THEN unlink(files, zip) ELSE files
               /\ cr' = [cr EXCEPT ![c] = [IdleCreate EXCEPT !.pc = "done",
                                                             !.result = "BACKUP_FAILED",
                                                             !.unlinkFailed = ~unlinkOk]]

CreateStart(c) ==
    /\ cr[c].pc \in { "idle", "done" }
    /\ started < MaxCreates
    /\ started' = started + 1
    /\ rootExists' = TRUE
    /\ LET rec == [IdleCreate EXCEPT !.ts = clock, !.id = started + 1]
       IN  IF RegistryEmpty(registry)
           THEN FailPath(c, rec, zipFiles)
           ELSE /\ stagingDirs' = stagingDirs \cup { clock }
                /\ cr' = [cr EXCEPT ![c] = [rec EXCEPT !.pc = "export"]]
                /\ UNCHANGED <<zipFiles, fsVars>>
    /\ UNCHANGED <<clock, returned, registry, ls, del, req>>
    /\ CreateFrozen

\* await createBackup(backupFolderPath)
CreateExport(c) ==
    /\ cr[c].pc = "export"
    /\ \E ok \in BOOLEAN :
         IF ok /\ cr[c].ts \in stagingDirs
         THEN /\ cr' = [cr EXCEPT ![c].pc = "zip"]
              /\ UNCHANGED <<stagingDirs, zipFiles, fsVars>>
         ELSE FailPath(c, cr[c], zipFiles)
    /\ UNCHANGED <<rootExists, clock, started, returned, registry, ls, del, req>>
    /\ CreateFrozen

\* await zipDirectory(backupFolderPath, zipPath); cleanupDirectory(backupFolderPath)
CreateZip(c) ==
    /\ cr[c].pc = "zip"
    /\ LET zip == ZipName(cr[c].ts)
           written == [zipFiles EXCEPT ![zip] = cr[c].id]
       IN  \E outcome \in { "written", "cleanupThrows", "partial", "nothing" } :
             CASE outcome = "written" ->
                    /\ cr[c].ts \in stagingDirs
                    /\ zipFiles' = written
                    /\ stagingDirs' = stagingDirs \ { cr[c].ts }
                    /\ returned' = returned \cup { zip }
                    /\ cr' = [cr EXCEPT ![c] = [IdleCreate EXCEPT !.pc = "done",
                                                                  !.result = "success"]]
                    /\ UNCHANGED fsVars
               [] outcome = "cleanupThrows" ->
                    /\ cr[c].ts \in stagingDirs
                    /\ returned' = returned
                    /\ FailPath(c, cr[c], written)
               [] outcome = "partial" ->
                    /\ returned' = returned
                    /\ FailPath(c, cr[c], [zipFiles EXCEPT ![zip] = Partial])
               [] outcome = "nothing" ->
                    /\ returned' = returned
                    /\ FailPath(c, cr[c], zipFiles)
    /\ UNCHANGED <<rootExists, clock, started, registry, ls, del, req>>
    /\ CreateFrozen

\* A listing that reads the directory whether it exists or not.
RootMissingNever(exists) == FALSE

\* if (!fs.existsSync(backupPath))
RootMissing(exists) == ~exists

\* GET /backups-list up to await fs.promises.readdir(backupPath)
ListStart ==
    /\ ls.pc \in { "idle", "done" }
    /\ IF RootMissing(rootExists)
       THEN ls' = [IdleList EXCEPT !.pc = "done", !.result = "ok"]
       ELSE IF ~rootExists
       THEN ls' = [IdleList EXCEPT !.pc = "done", !.result = "INTERNAL_ERROR"]
       ELSE ls' = [IdleList EXCEPT !.pc = "stat", !.seen = TRUE,
                      !.snapshot = { n \in ArchiveNames :
                                       zipFiles[n] # NoFile /\ endsWith(n, ZipExt) }]
    /\ UNCHANGED <<rootExists, zipFiles, stagingDirs, clock, started, returned, registry,
                   cr, del, req>>
    /\ RestoreFrozen

\* await Promise.all(backupFiles.map(... fs.promises.stat(fullPath) ...))
ListStat ==
    /\ ls.pc = "stat"
    /\ IF \E n \in ls.snapshot : zipFiles[n] = NoFile
       THEN ls' = [ls EXCEPT !.pc = "done", !.result = "INTERNAL_ERROR"]
       ELSE ls' = [ls EXCEPT !.pc = "done", !.result = "ok", !.list = ls.snapshot]
    /\ UNCHANGED <<rootExists, zipFiles, stagingDirs, clock, started, returned, registry,
                   cr, del, req>>
    /\ RestoreFrozen

\* A second passes.
Tick ==
    /\ clock < MaxStamp
    /\ clock' = clock + 1
    /\ UNCHANGED <<rootExists, zipFiles, stagingDirs, started, returned, registry,
                   cr, ls, del, req>>
    /\ RestoreFrozen

\* The backup root before any request of these handlers.
RootQuiet ==
    /\ zipFiles = [n \in ArchiveNames |-> NoFile]
    /\ stagingDirs = {}
    /\ clock = 1
    /\ started = 0
    /\ returned = {}
    /\ cr = [c \in Creators |-> IdleCreate]
    /\ ls = IdleList
    /\ del = IdleDel
    /\ del2 = IdleDel
    /\ req = IdleReq

---------------------------------------------------------------------------

Init ==
    /\ store \in StoreUniverse
    /\ txStore = store
    /\ txnState = "none"
    /\ closes = 0
    /\ preserve \in BOOLEAN
    /\ uploadsDir = FALSE
    /\ uploadFile = FALSE
    /\ uploadContent = CorruptArchive
    /\ extractionDirExists = FALSE
    /\ extracted = EmptyDir
    /\ archive = {}
    /\ archiveSrc = EmptyStore
    /\ pc = "idle"
    /\ transaction = "null"
    /\ extractionDir = "null"
    /\ csvRoot = NoRoot
    /\ idx = 0
    /\ rowsImported = {}
    /\ totalRows = 0
    /\ pending = "none"
    /\ result = "none"
    /\ pre = store
    /\ opsLog = <<>>
    /\ flags = NoFlags
    /\ aborted = FALSE
    /\ rootExists = FALSE
    /\ registry = getAllTables
    /\ configured = TRUE
    /\ RootQuiet

Next ==
    \/ ReceiveUpload
    \/ FileFilterReject
    \/ NoFileUploaded
    \/ Mkdtemp
    \/ ExtractZip
    \/ Locate
    \/ BeginTransaction
    \/ ClearTable
    \/ ImportTable
    \/ ReadStreamCrash
    \/ Commit
    \/ Rollback
    \/ UnlinkUpload
    \/ ClientAbort
    \/ CreateBackup

Spec == Init /\ [][Next]_vars

\* No restore request, an empty store.
RestoreQuiet ==
    /\ store = EmptyStore
    /\ txStore = EmptyStore
    /\ txnState = "none"
    /\ closes = 0
    /\ preserve = FALSE
    /\ uploadsDir = FALSE
    /\ uploadFile = FALSE
    /\ uploadContent = CorruptArchive
    /\ extractionDirExists = FALSE
    /\ extracted = EmptyDir
    /\ archive = {}
    /\ archiveSrc = EmptyStore
    /\ pc = "idle"
    /\ transaction = "null"
    /\ extractionDir = "null"
    /\ csvRoot = NoRoot
    /\ idx = 0
    /\ rowsImported = {}
    /\ totalRows = 0
    /\ pending = "none"
    /\ result = "none"
    /\ pre = EmptyStore
    /\ opsLog = <<>>
    /\ flags = NoFlags
    /\ aborted = FALSE

\* create-backup, backups-list and delete-backup requests against the backup
\* root, which exists or not; the registry is the build's, or an empty one.
FilesInit ==
    /\ RestoreQuiet
    /\ rootExists \in BOOLEAN
    /\ registry \in { <<>>, getAllTables }
    /\ configured = TRUE
    /\ RootQuiet

FilesNext ==
    \/ \E c \in Creators : CreateStart(c)
    \/ \E c \in Creators : CreateExport(c)
    \/ \E c \in Creators : CreateZip(c)
    \/ ListStart
    \/ ListStat
    \/ DeleteBackup
    \/ DeleteUnlink
    \/ Tick

FilesSpec == FilesInit /\ [][FilesNext]_vars

\* The handlers that take a filename, against a backup root that holds the
\* archive of one earlier create-backup request.
NamesInit ==
    /\ RestoreQuiet
    /\ rootExists = TRUE
    /\ registry = getAllTables
    /\ zipFiles = [n \in ArchiveNames |-> IF n = ZipName(1) THEN 1 ELSE NoFile]
    /\ stagingDirs = {}
    /\ clock = 1
    /\ started = 1
    /\ returned = { ZipName(1) }
    /\ cr = [c \in Creators |-> IdleCreate]
    /\ ls = IdleList
    /\ del = IdleDel
    /\ del2 = IdleDel
    /\ req = IdleReq
    /\ configured \in BOOLEAN

NamesNext ==
    \/ RequireProjectResources
    \/ DeleteBackupNamed
    \/ DeleteUnlink
    \/ DownloadBackupNamed
    \/ UploadOriginalName
    \/ SanitizeCall
    \/ ExtractEntries
    \/ ListBackups

NamesSpec == NamesInit /\ [][NamesNext]_vars

\* A restore request while create-backup requests, one at a time, work on the
\* same backup root: the handlers share the filesystem and the store, and nothing else.
\* The create-backup request that runs beside the restore.
Other == CHOOSE c \in Creators : TRUE

SharedInit ==
    /\ RestoreQuiet
    /\ rootExists = TRUE
    /\ registry = getAllTables
    /\ configured = TRUE
    /\ RootQuiet

SharedNext ==
    \/ ReceiveUpload
    \/ Mkdtemp
    \/ ExtractZip
    \/ Locate
    \/ BeginTransaction
    \/ ClearTable
    \/ ImportTable
    \/ ReadStreamCrash
    \/ Commit
    \/ Rollback
    \/ UnlinkUpload
    \/ CreateStart(Other)
    \/ CreateExport(Other)
    \/ CreateZip(Other)

SharedSpec == SharedInit /\ [][SharedNext]_vars

\* Two delete-backup requests in flight together, against a backup root that
\* holds the archive of one earlier create-backup request.
RaceInit ==
    /\ NamesInit
    /\ configured = TRUE

RaceNext ==
    \/ DeleteBackupNamed
    \/ DeleteUnlink
    \/ SecondDeleteNamed
    \/ SecondDeleteUnlink

RaceSpec == RaceInit /\ [][RaceNext]_vars

---------------------------------------------------------------------------
(* Properties                                                              *)

Ended == pc = "done"

Failed == result \notin { "none", "success" }

ClearedNames == { opsLog[i][2] : i \in { j \in 1..Len(opsLog) : opsLog[j][1] = "clear" } }

LoadedNames == { opsLog[i][2] : i \in { j \in 1..Len(opsLog) : opsLog[j][1] = "load" } }

CountedNames == { e[1] : e \in rowsImported }

\* The request is over: it was answered, or the process that ran it died.
Over == pc \in { "done", "crashed" }

\* C1: when a step of a restore has raised an error after the transaction
\* was opened (a clear step, a load step or the commit), the transaction is
\* rolled back, and every registry entity holds exactly the rows it held when
\* the restore began.
C1_StepFailureRollsBack ==
    (Over /\ (flags.stepFailed \/ flags.commitFailed)) =>
        (txnState = "rolledback" /\ closes = 1 /\ store = pre)

\* C2: every restore request that answers with a failure leaves the store as
\* it was before the restore, and no restore whose transaction was committed
\* answers with a failure.
C2_FailureLeavesStoreUnchanged ==
    (Ended /\ Failed) => (store = pre /\ txnState # "committed")

ExpectedOps ==
    LET n == Len(getAllTables)
    IN  [k \in 1..n |-> << "clear", getAllTables[n + 1 - k] >>]
        \o [k \in 1..n |-> << "load", getAllTables[k] >>]

IsPrefix(s, t) == Len(s) <= Len(t) /\ SubSeq(t, 1, Len(s)) = s

\* C3: within one restore the entities are cleared in exactly the reverse of
\* registry order, then loaded in exactly registry order, and no load starts
\* before the last clear: the steps begun so far are always a prefix of
\* clear(last) .. clear(first), load(first) .. load(last).
C3_ClearReverseThenLoadForward == IsPrefix(opsLog, ExpectedOps)

\* C3 witness: a restore has run both passes in full.
C3_Witness == opsLog = ExpectedOps /\ Ended /\ result = "success"

\* C4: the transaction is committed only after every registry entity was
\* cleared and every registry entity was processed by the load pass (imported
\* or skipped as absent), and never on a path where a clear or load step
\* raised an error.
C4_CommitOnlyAfterAll ==
    txnState = "committed" =>
        /\ ClearedNames = TableNames
        /\ LoadedNames = TableNames
        /\ CountedNames = TableNames
        /\ ~flags.stepFailed

\* C4 witness: a committed restore that imported one entity and skipped
\* another as absent.
C4_Witness ==
    /\ txnState = "committed"
    /\ << T(1), 1 >> \in rowsImported
    /\ << T(NumTables), 0 >> \in rowsImported
    /\ ~existsSync(DirAt(uploadContent.root, csvRoot), Name(T(NumTables), "csv"))

\* C5: every transaction a restore opened has been closed exactly once
\* (committed or rolled back, never left open) when the request is over, on
\* every exit path.
C5_TransactionClosedOnce ==
    (Over /\ txnState # "none") =>
        (closes = 1 /\ txnState \in { "committed", "rolledback" })

\* C6: outside preserve mode, when a restore request that received an
\* uploaded archive ends, neither its extraction directory nor its uploaded
\* archive exists; in preserve mode both are left in place.  (Stated for the
\* requests in which no attempted removal of the uploaded archive failed.)
C6_CleanupRemovesArtifacts ==
    (Ended /\ flags.received /\ ~flags.unlinkFailed) =>
        IF preserve
        THEN uploadFile /\ (extractionDir = "set" => extractionDirExists)
        ELSE ~uploadFile /\ ~extractionDirExists

NoDataFile(root) ==
    /\ \A f \in root.files : f.name.ext # "csv"
    /\ \A k \in 1..Len(root.dirs) : \A f \in root.dirs[k].dir.files : f.name.ext # "csv"

Extracted == flags.received /\ extractionDir = "set" /\ uploadContent.valid

\* C8: when the extracted archive holds no .csv file at its top level nor in
\* a directly nested directory, the restore ends with INVALID_BACKUP_FILE, no
\* transaction was opened and no store row was deleted or inserted.
C8_NoDataFileIsInvalidBackup ==
    (Ended /\ Extracted /\ NoDataFile(uploadContent.root)) =>
        /\ result = "INVALID_BACKUP_FILE"
        /\ txnState = "none"
        /\ opsLog = <<>>
        /\ store = pre

\* No entry named <entity>.csv at the top level nor in a directly nested directory.
NoRegistryFile(root) ==
    LET named(dir) == { n \in FileNames(dir) \cup DirNames(dir) :
                          n.ext = "csv" /\ n.stem \in TableNames }
    IN  /\ named(root) = {}
        /\ \A k \in 1..Len(root.dirs) : named(root.dirs[k].dir) = {}

\* C9: an uploaded archive that holds no data file named after a registry
\* entity never leads to a committed restore, and the store is unchanged when
\* its request ends.
C9_UnrecognizedArchiveRejected ==
    (flags.received /\ uploadContent.valid /\ NoRegistryFile(uploadContent.root)) =>
        /\ txnState # "committed"
        /\ Ended => store = pre

NullCollapsed(row) == [c \in DOMAIN row |-> IF row[c] = <<>> THEN NULL ELSE row[c]]

Collapse(s) == [n \in DOMAIN s |-> { NullCollapsed(r) : r \in s[n] }]

Refusable(f) ==
    \/ \E i \in 1..Len(f) : f[i] \in { "/", "\\", "NUL" }
    \/ \E i \in 1..(Len(f) - 1) : f[i] = "." /\ f[i + 1] = "."
    \/ \A i \in 1..Len(f) : f[i] = " "
    \/ Len(f) < Len(ZipExt)
    \/ \E i \in 1..Len(ZipExt) : f[Len(f) - Len(ZipExt) + i] # ZipExt[i]

\* C11: download-backup and delete-backup answer INVALID_FILENAME to every
\* filename that holds "..", "/", a backslash or a null byte, is absolute, is
\* empty or whitespace-only, or does not end in ".zip", and have made no
\* filesystem call and built no path for that request.
C11_BadNamesRefusedFirst ==
    /\ (del.pc = "done" /\ Refusable(del.name)) =>
           (del.result = "INVALID_FILENAME" /\ del.fsCalls = 0 /\ del.path = NoPath)
    /\ (req.op = "download" /\ Refusable(req.name)) =>
           (req.result = "INVALID_FILENAME" /\ req.fsCalls = 0 /\ req.path = NoPath)

\* C11 witness: a delete-backup request for a name ending in ".zip" that
\* holds a backslash was refused.
C11_Witness ==
    /\ del.pc = "done"
    /\ includes(del.name, << "\\" >>)
    /\ endsWith(del.name, ZipExt)
    /\ del.result = "INVALID_FILENAME"

\* C12: in download, delete and the naming of a restore upload, a path is
\* built from the sanitized filename only after validation of the filename
\* ran and succeeded: a name validation refuses is never sanitized and
\* accepted.
C12_ValidatedBeforeSanitized ==
    /\ (req.op \in { "download", "upload" } /\ req.path # NoPath) =>
           (validateZipExtensionOf(req.name) = "ok" /\ validateFilename(req.name) = "ok")
    /\ (del.path # NoPath) =>
           (validateZipExtensionOf(del.name) = "ok" /\ validateFilename(del.name) = "ok")

\* C13: for every input, what sanitizeFilename returns holds characters of
\* [A-Za-z0-9._-] only, and joined onto the backup root it is the path of an
\* entry directly inside the root: not the root, not its parent.
C13_SanitizedIsEntryOfRoot ==
    req.op = "sanitize" =>
        /\ \A i \in 1..Len(req.out) : req.out[i] \in SafeChars
        /\ req.path[1] = "entry"

\* How deep below the destination the first k segments of p lead.
Depth(p, k) ==
    Cardinality({ i \in 1..k : p[i] = "x" }) - Cardinality({ i \in 1..k : p[i] = ".." })

\* The stored path stays inside the destination directory.
Inside(p) == p[1] # "/" /\ \A k \in 1..Len(p) : Depth(p, k) >= 0

\* C14: unarchive writes no file outside its destination directory: an entry
\* whose stored path is absolute or leads above the destination through
\* parent-directory segments is not written.
C14_ExtractStaysInside ==
    req.op = "extract" => \A p \in req.written : Inside(p)

\* C14 witness: an archive with an escaping entry and a plain one was
\* extracted, and the plain one was written.
C14_Witness ==
    /\ req.op = "extract"
    /\ \E p \in req.entries : ~Inside(p)
    /\ req.written # {}

\* C15 (its archive half): when create-backup fails after its staging
\* directory was created, and no removal of its archive was tried in vain,
\* the archive database_backup_<timestamp>.zip of that request does not exist
\* when the error is returned.
C15_FailedBackupLeavesNoArchive ==
    [][\A c \in Creators :
         ( /\ cr[c].pc \in { "export", "zip" }
           /\ cr'[c].pc = "done"
           /\ cr'[c].result = "BACKUP_FAILED"
           /\ ~cr'[c].unlinkFailed )
         => zipFiles'[ZipName(cr[c].ts)] = NoFile]_vars

\* The step is the unlink of a delete-backup request naming n.
DeleteRemoves(n) ==
    del.pc = "unlink" /\ del.path = pathJoin(n) /\ del'.pc = "done"

\* C16: an archive whose name a create-backup request has returned never
\* changes and is removed by a delete-backup request naming it only; no later
\* create-backup request, started in the same second or not, overwrites or
\* removes it.
C16_ReturnedArchiveImmutable ==
    [][\A n \in returned : zipFiles'[n] = zipFiles[n] \/ DeleteRemoves(n)]_vars

\* C17: with an empty registry create-backup fails with BACKUP_FAILED, no
\* archive file is created, and no request answers success.
C17_EmptyRegistryFails ==
    registry = <<>> =>
        /\ \A c \in Creators :
               /\ cr[c].result # "success"
               /\ cr[c].pc \in { "idle", "done" }
               /\ cr[c].pc = "done" => cr[c].result = "BACKUP_FAILED"
        /\ \A n \in ArchiveNames : zipFiles[n] = NoFile
        /\ returned = {}

\* C17 witness: a create-backup request has ended with an empty registry.
C17_Witness ==
    /\ registry = <<>>
    /\ \E c \in Creators : cr[c].pc = "done" /\ cr[c].result = "BACKUP_FAILED"

\* C18: a delete-backup of an existing backup succeeds and removes the file;
\* a second delete-backup of the same name answers BACKUP_NOT_FOUND after the
\* existence check alone, the backup root as the first left it.
C18_SecondDeleteNotFound ==
    /\ (del.pc = "done" /\ del.result = "success") =>
           (zipFiles[del.path[2]] = NoFile /\ del.path[2] \notin returned)
    /\ ( /\ del.pc = "done"
         /\ validateZipExtensionOf(del.name) = "ok" /\ validateFilename(del.name) = "ok"
         /\ sanitizeFilename(del.name) = ZipName(1)
         /\ ZipName(1) \notin returned
         /\ del.result # "success" ) =>
           /\ del.result = "BACKUP_NOT_FOUND"
           /\ del.fsCalls = 1
           /\ zipFiles = [n \in ArchiveNames |-> NoFile]

\* C18 witness: the second delete-backup of the backup the first one removed
\* has been answered.
C18_Witness ==
    /\ del.pc = "done"
    /\ del.name = ZipName(1)
    /\ ZipName(1) \notin returned
    /\ del.result = "BACKUP_NOT_FOUND"

\* C19: when the backup root directory does not exist, backups-list answers
\* with an empty list, count 0, and not with an error.
C19_MissingRootListsNothing ==
    (ls.pc = "done" /\ ~ls.seen) => (ls.result = "ok" /\ ls.list = {})

\* C19 witness: a backups-list request was answered while the backup root
\* did not exist.
C19_Witness ==
    ls.pc = "done" /\ ~ls.seen /\ ~rootExists /\ ls.result = "ok"

\* C21: every failure result carries a kind of its operation's set in the
\* interface table: download-backup BACKUP_NOT_FOUND or INVALID_FILENAME only,
\* delete-backup BACKUP_NOT_FOUND, INVALID_FILENAME or BACKUP_FAILED only,
\* restore INVALID_BACKUP_FILE or RESTORE_FAILED only.
C21_FailureKindsOfTable ==
    /\ req.op = "download" =>
           req.result \in { "stream", "BACKUP_NOT_FOUND", "INVALID_FILENAME" }
    /\ del.pc = "done" =>
           del.result \in { "success", "BACKUP_NOT_FOUND", "INVALID_FILENAME", "BACKUP_FAILED" }
    /\ req.op \in { "upload", "restore" } =>
           req.result \in { "accepted", "INVALID_BACKUP_FILE", "RESTORE_FAILED" }

\* C22: a failure raised while clearing, loading or committing is answered
\* as RESTORE_FAILED; among them a failure while importing one entity, be it
\* a row the store rejects or a data file that cannot be read or parsed.
C22_StepFailureIsRestoreFailed ==
    (Ended /\ (flags.stepFailed \/ flags.commitFailed)) => result = "RESTORE_FAILED"

NoRowsFor(n) ==
    LET d == DirAt(uploadContent.root, csvRoot)
        f == Name(n, "csv")
    IN  \/ f \notin FileNames(d) \cup DirNames(d)
        \/ f \in FileNames(d) /\ Len(TextOf(d, f)) <= 1

\* C24: a load step for an entity whose data file is absent or holds a
\* header only, its reading raising no error, does not fail: the entity gets
\* the row count 0, nothing is inserted, and the loop goes on to the next
\* entity or to the commit.
C24_NoRowsIsNoError ==
    [][(pc = "import" /\ opsLog' # opsLog /\ NoRowsFor(ImportName) /\ ~flags'.stepFailed)
         => /\ pc' \in { "import", "commit" }
            /\ << ImportName, 0 >> \in rowsImported'
            /\ txStore' = txStore
            /\ pending' = "none"]_vars

\* C24 witness: a restore committed and answered success with one entity's
\* data file absent and another's holding a header only, both counted 0.
C24_Witness ==
    /\ Ended /\ result = "success" /\ txnState = "committed"
    /\ \E n1, n2 \in TableNames :
         /\ Name(n1, "csv") \notin FileNames(DirAt(uploadContent.root, csvRoot))
         /\ Name(n2, "csv") \in FileNames(DirAt(uploadContent.root, csvRoot))
         /\ NoRowsFor(n2)
         /\ { << n1, 0 >>, << n2, 0 >> } \subseteq rowsImported

\* C25: backups-list answers with exactly the entries of the backup root that
\* are regular files with a name ending in ".zip", each once, the one created
\* later before the one created earlier, and count is their number.
C25_ListIsZipFilesNewestFirst ==
    req.op = "list" =>
        LET wanted == { k \in 1..Len(req.listing) :
                          /\ req.listing[k].kind = "file"
                          /\ Len(req.listing[k].name) >= 4
                          /\ SubSeq(req.listing[k].name, Len(req.listing[k].name) - 3,
                                    Len(req.listing[k].name)) = << ".", "z", "i", "p" >> }
        IN  /\ { req.out[i] : i \in 1..Len(req.out) } = { req.listing[k] : k \in wanted }
            /\ Len(req.out) = Cardinality(wanted)
            /\ \A i, j \in 1..Len(req.out) : i < j => req.out[i].birth >= req.out[j].birth
            /\ req.count = Len(req.out)

\* C25 witness: a listing of two archives, read with the older one first,
\* was answered with the newer one first and count 2.
C25_Witness ==
    /\ req.op = "list"
    /\ Len(req.listing) = 2
    /\ req.count = 2
    /\ req.listing[1].birth < req.listing[2].birth
    /\ req.out[1] = req.listing[2]

\* C26: Locating selects the extraction directory when it directly holds a
\* .csv file, otherwise the first directly nested directory that directly
\* holds one; when no .csv file lies within one level of nesting (the data
\* files lie deeper, or nowhere) nothing is selected and the restore ends
\* with INVALID_BACKUP_FILE.
C26_LocateDepthOne ==
    LET top == uploadContent.root
    IN  /\ csvRoot # NoRoot =>
              /\ Len(csvRoot) <= 1
              /\ HasCsvFile(DirAt(top, csvRoot))
              /\ csvRoot # <<>> =>
                    /\ ~HasCsvFile(top)
                    /\ \A j \in 1..(csvRoot[1] - 1) : ~HasCsvFile(top.dirs[j].dir)
        /\ (Ended /\ Extracted /\ ~HasCsvFile(top)
              /\ \A k \in 1..Len(top.dirs) : ~HasCsvFile(top.dirs[k].dir)) =>
              /\ csvRoot = NoRoot
              /\ result = "INVALID_BACKUP_FILE"

\* The timestamp of the staging directory create-backup request d works on.
C27_StampOf(d) == IF cr[d].pc \in { "export", "zip" } THEN cr[d].ts ELSE clock

\* C27: a step of one create-backup request, its failure cleanup included,
\* removes no staging directory of another create-backup request that is
\* still in progress under a different timestamp.
C27_CleanupRemovesOwnOnly ==
    [][\A c, d \in Creators :
          ( /\ c # d
            /\ cr[c].pc \in { "export", "zip" }
            /\ cr[c].ts \in stagingDirs
            /\ cr'[c] = cr[c]
            /\ cr'[d] # cr[d]
            /\ C27_StampOf(d) # cr[c].ts )
          => cr[c].ts \in stagingDirs']_vars

\* C28: a restore that answered success has, for every registry entity whose
\* data file was in the located directory when the transaction was opened,
\* committed all rows of that file and reported their number, whatever other
\* requests did on the backup root meanwhile.
C28_PresentFilesAreLoaded ==
    (Ended /\ result = "success") =>
        \A n \in flags.present :
            LET rows == ParsedRows(TextOf(DirAt(uploadContent.root, csvRoot), Name(n, "csv")))
            IN  /\ RowSet(rows) \subseteq store[n]
                /\ << n, Len(rows) >> \in rowsImported

\* C29: of two concurrent delete-backup requests naming the same existing
\* archive, the one whose unlink settles after the other's success answers
\* BACKUP_NOT_FOUND, never BACKUP_FAILED, and removes nothing more.
C29_RaceLoserIsNotFound ==
    [][ /\ ( /\ del.pc = "unlink" /\ del'.pc = "done"
             /\ del2.pc = "done" /\ del2.result = "success" /\ del2.path = del.path )
           => (del'.result = "BACKUP_NOT_FOUND" /\ zipFiles' = zipFiles)
        /\ ( /\ del2.pc = "unlink" /\ del2'.pc = "done"
             /\ del.pc = "done" /\ del.result = "success" /\ del.path = del2.path )
           => (del2'.result = "BACKUP_NOT_FOUND" /\ zipFiles' = zipFiles) ]_vars

\* C30: restoreFromBackup, run on the directory the route located and on the
\* store the route started from, ends as the route's inline restore did: with
\* the same store contents and the same per-entity row counts.
C30_ModuleEqualsRoute ==
    (Ended /\ result = "success") =>
        LET module == restoreFromBackup(DirAt(uploadContent.root, csvRoot), pre)
        IN  /\ module.result = "success"
            /\ module.store = store
            /\ module.counts = rowsImported

\* C20: backups-list has no failure outcome: whatever create-backup and
\* delete-backup requests do meanwhile, it answers with a list. Stated for
\* the runs in which no create-backup request has failed.
C20_ListNeverFails ==
    (ls.pc = "done" /\ \A c \in Creators : cr[c].result # "BACKUP_FAILED") =>
        ls.result = "ok"

====
